---- MODULE Spec2Model ----
(***************************************************************************)
(* A model of the ssh_format codec: the Serializer (src/src/ser.rs), the   *)
(* Deserializer (src/src/de.rs) and the Transformer                        *)
(* (src/src/transformer.rs).                                               *)
(*                                                                         *)
(* Machine integers wider than 16 bits are sequences of base-65536 limbs,  *)
(* most significant limb first (u32: 2 limbs, u64 and usize: 4 limbs); the *)
(* top limb of a signed integer is signed.  A byte is an integer 0..255.   *)
(***************************************************************************)
EXTENDS Integers, Sequences, FiniteSets, TLC

VARIABLES
    value,      \* the value handed to to_bytes
    ty,         \* the target type handed to from_bytes / T::deserialize
    buffer,     \* the result of to_bytes(value): [err, bytes]
    input,      \* the bytes handed to the decoders
    rest,       \* bytes of input not yet cut into a chunk
    chunks,     \* the chunk sequence handed to Deserializer::new
    res,        \* the result of the last decode
    pc,         \* position of the encode/decode pipeline
    obj,        \* which object a client drives call by call
    ser,        \* that Serializer
    sres,       \* its last call: [op, arg, err, hdr, before]
    written,    \* bytes serialized since construction or the last reset_counter
    de,         \* that Deserializer
    dres,       \* its last call: [op, err, val, before]
    transformer,\* the Serializer a Transformer wraps
    tval,       \* the last value handed to Transformer::serialize
    tty,        \* the target type of tval
    tout,       \* what that call returned: [err, bytes, before]
    tres,       \* what Transformer::deserialize returned: [err, val, rest]
    tn,         \* the number of values serialized
    tpc,        \* what was last done with the Transformer
    reader,     \* a Deserializer whose reads are called one by one
    built,      \* how it was built: "from_bytes" or "new"
    seq_access, \* the Access of the sequence being visited: <<>> or <<[len, n, calls]>>
    last,       \* its last read: [op, arg, err, cow, bytes, val, some, before]
    eof,        \* whether a read of it has failed with Eof
    supplied,   \* the chunks it was built over
    returned    \* the bytes its reads have returned so far

pipevars == <<value, ty, buffer, input, rest, chunks, res, pc>>
opsvars == <<obj, ser, sres, written, de, dres>>
tvars == <<transformer, tval, tty, tout, tres, tn, tpc>>
devars == <<reader, built, seq_access, last, eof, supplied, returned>>
vars == <<pipevars, opsvars, tvars, devars>>

-----------------------------------------------------------------------------
(* Values and target types.                                                *)

\* `let r = v; body`: v is evaluated where it is bound and named r in F
Bind(v, F(_)) == F(v)

\* A value: t the kind, n the number's limbs, q the boolean, b the bytes of a
\* string, f the fields / elements / variant payload, k the variant shape.
V(t, n, q, b, f, k) == [t |-> t, n |-> n, q |-> q, b |-> b, f |-> f, k |-> k]

U8(x)      == V("u8", <<x>>, FALSE, <<>>, <<>>, "")
I8(x)      == V("i8", <<x>>, FALSE, <<>>, <<>>, "")
U16(x)     == V("u16", <<x>>, FALSE, <<>>, <<>>, "")
I16(x)     == V("i16", <<x>>, FALSE, <<>>, <<>>, "")
U32(x)     == V("u32", x, FALSE, <<>>, <<>>, "")
I32(x)     == V("i32", x, FALSE, <<>>, <<>>, "")
U64(x)     == V("u64", x, FALSE, <<>>, <<>>, "")
I64(x)     == V("i64", x, FALSE, <<>>, <<>>, "")
Bool(q)    == V("bool", <<>>, q, <<>>, <<>>, "")
Char(x)    == V("char", x, FALSE, <<>>, <<>>, "")
Str(b)     == V("str", <<>>, FALSE, b, <<>>, "")
Bytes(b)   == V("bytes", <<>>, FALSE, b, <<>>, "")
UnitV      == V("unit", <<>>, FALSE, <<>>, <<>>, "")
NoneV      == V("none", <<>>, FALSE, <<>>, <<>>, "")
SomeV(x)   == V("some", <<>>, FALSE, <<>>, <<x>>, "")
SeqV(f)    == V("seq", <<>>, FALSE, <<>>, f, "")
TupleV(f)  == V("tuple", <<>>, FALSE, <<>>, f, "")
StructV(f) == V("struct", <<>>, FALSE, <<>>, f, "")
NewtypeV(x) == V("newtype", <<>>, FALSE, <<>>, <<x>>, "")
MapV(f)    == V("map", <<>>, FALSE, <<>>, f, "")
\* variant index idx (u32), shape k in {"unit","newtype","tuple","struct"}
EnumV(idx, k, f) == V("enum", idx, FALSE, <<>>, f, k)

\* A target type: t the kind, f the field / element types, names the variant
\* name table handed to deserialize_enum, acc the variants the target's own
\* decode logic accepts (index, shape, field types).
T(t, f) == [t |-> t, f |-> f, names |-> <<>>, acc |-> <<>>]
TEnum(names, acc) == [t |-> "enum", f |-> <<>>, names |-> names, acc |-> acc]
Variant(idx, k, f) == [idx |-> idx, k |-> k, f |-> f]

-----------------------------------------------------------------------------
(* Fixed-width integers.                                                   *)

\* uN::to_be_bytes / iN::to_be_bytes of a limb sequence: two bytes per limb,
\* the (possibly negative) top limb in two's complement.
RECURSIVE to_be_bytes(_)
to_be_bytes(x) ==
    IF x = <<>> THEN <<>>
    ELSE LET l == (Head(x) + 65536) % 65536
         IN <<l \div 256, l % 256>> \o to_be_bytes(Tail(x))

\* uN::from_be_bytes: the limbs of an even number of bytes.
RECURSIVE from_be_bytes(_)
from_be_bytes(bytes) ==
    IF bytes = <<>> THEN <<>>
    ELSE <<bytes[1] * 256 + bytes[2]>> \o from_be_bytes(Tail(Tail(bytes)))

\* iN::from_be_bytes: as from_be_bytes, the top limb read as signed.
from_be_bytes_signed(bytes) ==
    Bind(from_be_bytes(bytes), LAMBDA u :
        IF u[1] >= 32768 THEN <<u[1] - 65536>> \o Tail(u) ELSE u)

\* `len() as usize` of a buffer of the model: a small natural as 4 limbs.
usize_of(n) == <<0, 0, n \div 65536, n % 65536>>

\* `len as usize` of a u32 (zero extension).
u32_as_usize(x) == <<0, 0, x[1], x[2]>>

\* usize + usize (64 bits, wrapping).
usize_add(a, b) ==
    LET s4 == a[4] + b[4]
        s3 == a[3] + b[3] + (s4 \div 65536)
        s2 == a[2] + b[2] + (s3 \div 65536)
        s1 == a[1] + b[1] + (s2 \div 65536)
    IN <<s1 % 65536, s2 % 65536, s3 % 65536, s4 % 65536>>

\* usize - n for a small natural n <= the usize.
usize_sub(a, n) ==
    LET d4 == a[4] - n
        b3 == IF d4 < 0 THEN 1 ELSE 0
        d3 == a[3] - b3
        b2 == IF d3 < 0 THEN 1 ELSE 0
        d2 == a[2] - b2
        b1 == IF d2 < 0 THEN 1 ELSE 0
    IN <<a[1] - b1, (d2 + 65536) % 65536, (d3 + 65536) % 65536, (d4 + 65536) % 65536>>

usize_is_zero(a) == a = <<0, 0, 0, 0>>

\* slice.len() >= size, for a slice of the model (shorter than 65536).
len_ge(n, size) == size[1] = 0 /\ size[2] = 0 /\ size[3] = 0 /\ n >= size[4]

\* slice.len().min(buffer.len())
len_min(n, size) == IF len_ge(n, size) THEN size[4] ELSE n

-----------------------------------------------------------------------------
(* Serializer: s = [output, len, err]; err = "" is Ok.                     *)

Serializer_new(output) == [output |-> output, len |-> 0, err |-> ""]

Fail(s, e) == [s EXCEPT !.err = e]

usize_to_u32(v) ==
    IF v[1] = 0 /\ v[2] = 0
    THEN [err |-> "", val |-> <<v[3], v[4]>>]
    ELSE [err |-> "TooLong", val |-> <<0, 0>>]

\* Vec::reserve changes the capacity only, never the contents; it panics with
\* "capacity overflow" when the capacity asked for is above isize::MAX.
reserve(s, additional) ==
    IF \/ additional[1] >= 32768
       \/ usize_add(usize_of(Len(s.output)), additional)[1] >= 32768
    THEN Fail(s, "panic")
    ELSE s

create_header(s, len) ==
    Bind(usize_to_u32(usize_add(usize_of(s.len), u32_as_usize(len))), LAMBDA r :
        IF r.err # "" THEN [err |-> r.err, val |-> <<>>]
        ELSE [err |-> "", val |-> to_be_bytes(r.val)])

\* mutant: the counter is left as it is
reset_counter_noop(s) == s

reset_counter(s) == [s EXCEPT !.len = 0]

\* mutant: the bytes are appended but not counted
extend_from_slice_uncounted(s, other) == [s EXCEPT !.output = @ \o other]

extend_from_slice(s, other) ==
    [s EXCEPT !.output = @ \o other, !.len = @ + Len(other)]

push(s, byte) == [s EXCEPT !.output = Append(@, byte), !.len = @ + 1]

serialize_u8(s, v) == push(s, v)

serialize_i8(s, v) == push(s, (v + 256) % 256)

\* mutant: the bytes are written least significant first
serialize_primitive_le(s, v) ==
    extend_from_slice(s, [i \in 1..Len(to_be_bytes(v)) |->
                            to_be_bytes(v)[Len(to_be_bytes(v)) + 1 - i]])

\* impl_for_serialize_primitive: i16, i32, i64, u16, u32, u64
serialize_primitive(s, v) == extend_from_slice(s, to_be_bytes(v))

serialize_u32(s, v) == serialize_primitive(s, v)

serialize_usize(s, v) ==
    Bind(usize_to_u32(v), LAMBDA r :
        IF r.err # "" THEN Fail(s, r.err) ELSE serialize_u32(s, r.val))

\* `v as u32` of a bool
bool_as_u32(q) == IF q THEN <<0, 1>> ELSE <<0, 0>>

serialize_bool(s, q) == serialize_u32(s, bool_as_u32(q))

serialize_char(s, v) == serialize_u32(s, v)

is_null_byte(byte) == byte = 0

\* bytes.split(is_null_byte): the runs between NUL bytes, empty runs included.
RECURSIVE split_run(_, _, _)
split_run(bytes, cur, acc) ==
    IF bytes = <<>> THEN Append(acc, cur)
    ELSE IF is_null_byte(Head(bytes))
         THEN split_run(Tail(bytes), <<>>, Append(acc, cur))
         ELSE split_run(Tail(bytes), Append(cur, Head(bytes)), acc)

split(bytes) == split_run(bytes, <<>>, <<>>)

RECURSIVE extend_each(_, _)
extend_each(s, slices) ==
    IF slices = <<>> THEN s
    ELSE extend_each(
            IF Head(slices) # <<>> THEN extend_from_slice(s, Head(slices)) ELSE s,
            Tail(slices))

\* mutant: the length written counts the NUL bytes that are left out
serialize_str_unstripped(s, v) ==
    Bind(serialize_usize(reserve(s, usize_of(4 + Len(v))), usize_of(Len(v))), LAMBDA s1 :
        IF s1.err # "" THEN s1
        ELSE IF \A i \in 1..Len(v) : ~is_null_byte(v[i]) THEN extend_from_slice(s1, v)
        ELSE extend_each(s1, split(v)))

serialize_str(s, v) ==
    Bind(Cardinality({i \in 1..Len(v) : is_null_byte(v[i])}), LAMBDA null_byte_counts :
    Bind(Len(v) - null_byte_counts, LAMBDA len :
    Bind(reserve(s, usize_of(4 + len)), LAMBDA s0 :
    Bind(IF s0.err # "" THEN s0 ELSE serialize_usize(s0, usize_of(len)), LAMBDA s1 :
        IF s1.err # "" THEN s1
        ELSE IF null_byte_counts = 0 THEN extend_from_slice(s1, v)
        ELSE extend_each(s1, split(v))))))

serialize_bytes(s, v) ==
    Bind(reserve(s, usize_of(4 + Len(v))), LAMBDA s0 :
    Bind(IF s0.err # "" THEN s0 ELSE serialize_usize(s0, usize_of(Len(v))), LAMBDA s1 :
        IF s1.err # "" THEN s1 ELSE extend_from_slice(s1, v)))

serialize_none(s) == s

serialize_unit(s) == s

serialize_unit_struct(s) == serialize_unit(s)

\* len = <<>> is None, <<n>> is Some(n) with n a usize.
serialize_seq(s, len) ==
    IF len # <<>>
    THEN Bind(reserve(s, usize_add(usize_of(4), len[1])), LAMBDA s0 :
            IF s0.err # "" THEN s0 ELSE serialize_usize(s0, len[1]))
    ELSE s

serialize_tuple(s, len) == s

serialize_tuple_struct(s, len) == serialize_tuple(s, len)

\* mutant: a struct is given a field count
serialize_struct_counted(s, len) == serialize_usize(s, usize_of(len))

serialize_struct(s, len) == serialize_tuple(s, len)

serialize_unit_variant(s, variant_index) == serialize_u32(s, variant_index)

serialize_tuple_variant(s, variant_index, len) ==
    Bind(serialize_unit_variant(s, variant_index), LAMBDA s1 :
        IF s1.err # "" THEN s1 ELSE serialize_tuple(s1, len))

serialize_struct_variant(s, variant_index, len) ==
    Bind(serialize_unit_variant(s, variant_index), LAMBDA s1 :
        IF s1.err # "" THEN s1 ELSE serialize_tuple(s1, len))

\* mutant: the map is given the framing of a sequence
serialize_map_as_seq(s, len) == serialize_seq(s, len)

serialize_map(s, len) == Fail(s, "Unsupported")

\* value.serialize(serializer): the value's Serialize implementation calls
\* the serializer method of its kind; serialize_some, serialize_newtype_struct,
\* serialize_newtype_variant and serialize_element / serialize_field hand the
\* inner value back to it.
RECURSIVE serialize(_, _)
RECURSIVE serialize_fields(_, _)

serialize_some(s, v) == serialize(s, v)

serialize_newtype_struct(s, v) == serialize(s, v)

serialize_newtype_variant(s, variant_index, v) ==
    Bind(serialize_unit_variant(s, variant_index), LAMBDA s1 :
        IF s1.err # "" THEN s1 ELSE serialize(s1, v))

\* SerializeSeq / SerializeTuple / SerializeStruct ...: serialize_element or
\* serialize_field for each field in order, stopping at the first error; end.
serialize_fields(s, f) ==
    IF s.err # "" \/ f = <<>> THEN s
    ELSE serialize_fields(serialize(s, Head(f)), Tail(f))

serialize(s, v) ==
    CASE v.t = "u8" -> serialize_u8(s, v.n[1])
      [] v.t = "i8" -> serialize_i8(s, v.n[1])
      [] v.t \in {"u16", "i16", "u32", "i32", "u64", "i64"} -> serialize_primitive(s, v.n)
      [] v.t = "bool" -> serialize_bool(s, v.q)
      [] v.t = "char" -> serialize_char(s, v.n)
      [] v.t = "str" -> serialize_str(s, v.b)
      [] v.t = "bytes" -> serialize_bytes(s, v.b)
      [] v.t = "unit" -> serialize_unit(s)
      [] v.t = "none" -> serialize_none(s)
      [] v.t = "some" -> serialize_some(s, v.f[1])
      [] v.t = "newtype" -> serialize_newtype_struct(s, v.f[1])
      [] v.t = "seq" -> serialize_fields(serialize_seq(s, <<usize_of(Len(v.f))>>), v.f)
      [] v.t = "tuple" -> serialize_fields(serialize_tuple(s, Len(v.f)), v.f)
      [] v.t = "struct" -> serialize_fields(serialize_struct(s, Len(v.f)), v.f)
      [] v.t = "map" -> serialize_fields(serialize_map(s, <<usize_of(Len(v.f))>>), v.f)
      [] v.t = "enum" /\ v.k = "unit" -> serialize_unit_variant(s, v.n)
      [] v.t = "enum" /\ v.k = "newtype" -> serialize_newtype_variant(s, v.n, v.f[1])
      [] v.t = "enum" /\ v.k = "tuple" ->
            serialize_fields(serialize_tuple_variant(s, v.n, Len(v.f)), v.f)
      [] v.t = "enum" /\ v.k = "struct" ->
            serialize_fields(serialize_struct_variant(s, v.n, Len(v.f)), v.f)

\* to_bytes: [err, bytes]
to_bytes(v) ==
    Bind(serialize(Serializer_new(<<0, 0, 0, 0>>), v), LAMBDA serializer :
        IF serializer.err # "" THEN [err |-> serializer.err, bytes |-> <<>>]
        ELSE Bind(create_header(serializer, <<0, 0>>), LAMBDA header :
            IF header.err # "" THEN [err |-> header.err, bytes |-> <<>>]
            ELSE [err |-> "",
                  bytes |-> header.val \o SubSeq(serializer.output, 5, Len(serializer.output))]))

-----------------------------------------------------------------------------
(* Deserializer: d = [slice, iter]; iter is the sequence of chunks the     *)
(* fused iterator has not yet yielded.  Every read returns the new d with  *)
(* its result; err = "" is Ok.                                             *)

Deserializer_new(iter) == [slice |-> <<>>, iter |-> iter]

Deserializer_from_bytes(slice) == [slice |-> slice, iter |-> <<>>]

\* mutant: the next chunk is taken even when it is empty
update_slice_inner_next(d) ==
    IF d.iter = <<>> THEN [slice |-> <<>>, iter |-> <<>>]
    ELSE [slice |-> Head(d.iter), iter |-> Tail(d.iter)]

\* self.iter.find(|slice| !slice.is_empty()).unwrap_or(&[])
RECURSIVE update_slice_inner(_)
update_slice_inner(d) ==
    IF d.iter = <<>> THEN [slice |-> <<>>, iter |-> <<>>]
    ELSE IF Head(d.iter) # <<>> THEN [slice |-> Head(d.iter), iter |-> Tail(d.iter)]
    ELSE update_slice_inner([d EXCEPT !.iter = Tail(@)])

update_slice(d) == IF d.slice = <<>> THEN update_slice_inner(d) ELSE d

\* mutant: the byte is returned and left in the slice
next_byte_peek(d) ==
    Bind(update_slice(d), LAMBDA d1 :
        IF d1.slice = <<>> THEN [d |-> d1, err |-> "Eof", byte |-> 0]
        ELSE [d |-> d1, err |-> "", byte |-> Head(d1.slice)])

next_byte(d) ==
    Bind(update_slice(d), LAMBDA d1 :
        IF d1.slice = <<>> THEN [d |-> d1, err |-> "Eof", byte |-> 0]
        ELSE [d |-> [d1 EXCEPT !.slice = Tail(@)], err |-> "", byte |-> Head(d1.slice)])

\* The loop of fill_buffer: buffer_len bytes of the buffer are still to be
\* filled, filled holds what has been copied into it.
RECURSIVE fill_buffer_loop(_, _, _)
fill_buffer_loop(d, buffer_len, filled) ==
    IF usize_is_zero(buffer_len) THEN [d |-> d, err |-> "", bytes |-> filled]
    ELSE Bind(update_slice(d), LAMBDA d1 :
            IF d1.slice = <<>> THEN [d |-> d1, err |-> "Eof", bytes |-> filled]
            ELSE Bind(len_min(Len(d1.slice), buffer_len), LAMBDA n :
                    fill_buffer_loop(
                        [d1 EXCEPT !.slice = SubSeq(@, n + 1, Len(@))],
                        usize_sub(buffer_len, n),
                        filled \o SubSeq(d1.slice, 1, n))))

RECURSIVE Zeros(_)
Zeros(n) == IF n <= 0 THEN <<>> ELSE <<0>> \o Zeros(n - 1)

\* mutant: running out of input is not reported, the buffer keeps its zeros
fill_buffer_no_eof(d, size) ==
    Bind(fill_buffer_loop(d, size, <<>>), LAMBDA r :
        [d |-> r.d, err |-> "", bytes |-> r.bytes \o Zeros(size[4] - Len(r.bytes))])

\* mutant: a read that runs out of input puts back what it had copied
fill_buffer_rollback(d, size) ==
    Bind(fill_buffer_loop(d, size, <<>>), LAMBDA r :
        IF r.err # "" THEN [r EXCEPT !.d = d] ELSE r)

\* fill_buffer on a buffer of `size` bytes (a usize)
fill_buffer(d, size) == fill_buffer_loop(d, size, <<>>)

next_bytes_const(d, SIZE) == fill_buffer(d, usize_of(SIZE))

next_u32(d) ==
    Bind(next_bytes_const(d, 4), LAMBDA r :
        [d |-> r.d, err |-> r.err,
         val |-> IF r.err = "" THEN from_be_bytes(r.bytes) ELSE <<0, 0>>])

\* mutant: the bytes are always copied into a fresh buffer
next_bytes_copying(d, size) ==
    Bind(update_slice(d), LAMBDA d1 :
        Bind(fill_buffer(d1, size), LAMBDA r :
            [d |-> r.d, err |-> r.err, cow |-> "Owned", bytes |-> r.bytes]))

\* mutant: a chunk holding exactly size bytes is copied
next_bytes_strict(d, size) ==
    Bind(update_slice(d), LAMBDA d1 :
        IF len_ge(Len(d1.slice), usize_add(size, usize_of(1)))
        THEN [d |-> [d1 EXCEPT !.slice = SubSeq(@, size[4] + 1, Len(@))],
              err |-> "", cow |-> "Borrowed", bytes |-> SubSeq(d1.slice, 1, size[4])]
        ELSE Bind(fill_buffer(d1, size), LAMBDA r :
                [d |-> r.d, err |-> r.err, cow |-> "Owned", bytes |-> r.bytes]))

\* cow: "Borrowed" is a view of the current chunk, "Owned" a fresh buffer
next_bytes(d, size) ==
    Bind(update_slice(d), LAMBDA d1 :
        IF len_ge(Len(d1.slice), size)
        THEN [d |-> [d1 EXCEPT !.slice = SubSeq(@, size[4] + 1, Len(@))],
              err |-> "", cow |-> "Borrowed", bytes |-> SubSeq(d1.slice, 1, size[4])]
        ELSE Bind(fill_buffer(d1, size), LAMBDA r :
                [d |-> r.d, err |-> r.err, cow |-> "Owned", bytes |-> r.bytes]))

\* u32 -> usize never fails on a target of 32 bits or more
parse_bytes(d) ==
    Bind(next_u32(d), LAMBDA len :
        IF len.err # "" THEN [d |-> len.d, err |-> len.err, cow |-> "", bytes |-> <<>>]
        ELSE next_bytes(len.d, u32_as_usize(len.val)))

\* char::from_u32: a Unicode scalar value
char_from_u32(x) == x[1] <= 16 /\ ~(x[1] = 0 /\ x[2] >= 55296 /\ x[2] <= 57343)

\* str::from_utf8 / String::from_utf8: well-formed UTF-8
is_cont(c) == c >= 128 /\ c <= 191

RECURSIVE from_utf8(_)
from_utf8(b) ==
    IF b = <<>> THEN TRUE
    ELSE LET c == b[1]
         IN IF c < 128 THEN from_utf8(Tail(b))
            ELSE IF c >= 194 /\ c <= 223
                 THEN Len(b) >= 2 /\ is_cont(b[2]) /\ from_utf8(SubSeq(b, 3, Len(b)))
            ELSE IF c >= 224 /\ c <= 239
                 THEN /\ Len(b) >= 3
                      /\ b[2] >= (IF c = 224 THEN 160 ELSE 128)
                      /\ b[2] <= (IF c = 237 THEN 159 ELSE 191)
                      /\ is_cont(b[3])
                      /\ from_utf8(SubSeq(b, 4, Len(b)))
            ELSE IF c >= 240 /\ c <= 244
                 THEN /\ Len(b) >= 4
                      /\ b[2] >= (IF c = 240 THEN 144 ELSE 128)
                      /\ b[2] <= (IF c = 244 THEN 143 ELSE 191)
                      /\ is_cont(b[3])
                      /\ is_cont(b[4])
                      /\ from_utf8(SubSeq(b, 5, Len(b)))
            ELSE FALSE

Ok(d, v) == [d |-> d, err |-> "", val |-> v]
Err(d, e) == [d |-> d, err |-> e, val |-> UnitV]

\* mutant: every non-zero word is true
deserialize_bool_nonzero(d) ==
    Bind(next_u32(d), LAMBDA r :
        IF r.err # "" THEN Err(r.d, r.err)
        ELSE IF r.val = <<0, 0>> THEN Ok(r.d, Bool(FALSE))
        ELSE Ok(r.d, Bool(TRUE)))

deserialize_bool(d) ==
    Bind(next_u32(d), LAMBDA r :
        IF r.err # "" THEN Err(r.d, r.err)
        ELSE IF r.val = <<0, 1>> THEN Ok(r.d, Bool(TRUE))
        ELSE IF r.val = <<0, 0>> THEN Ok(r.d, Bool(FALSE))
        ELSE Err(r.d, "InvalidBoolEncoding"))

deserialize_u8(d) ==
    Bind(next_byte(d), LAMBDA r :
        IF r.err # "" THEN Err(r.d, r.err) ELSE Ok(r.d, U8(r.byte)))

\* mutant: the byte is not reinterpreted as signed
deserialize_i8_unsigned(d) ==
    Bind(next_byte(d), LAMBDA r :
        IF r.err # "" THEN Err(r.d, r.err) ELSE Ok(r.d, I8(r.byte)))

\* `byte as i8`
deserialize_i8(d) ==
    Bind(next_byte(d), LAMBDA r :
        IF r.err # "" THEN Err(r.d, r.err)
        ELSE Ok(r.d, I8(IF r.byte >= 128 THEN r.byte - 256 ELSE r.byte)))

\* impl_for_deserialize_primitive: t of SIZE bytes
deserialize_primitive(d, t, SIZE) ==
    Bind(next_bytes_const(d, SIZE), LAMBDA r :
        IF r.err # "" THEN Err(r.d, r.err)
        ELSE Ok(r.d, V(t, IF t \in {"i16", "i32", "i64"}
                          THEN from_be_bytes_signed(r.bytes)
                          ELSE from_be_bytes(r.bytes),
                       FALSE, <<>>, <<>>, "")))

deserialize_char(d) ==
    Bind(next_u32(d), LAMBDA r :
        IF r.err # "" THEN Err(r.d, r.err)
        ELSE IF char_from_u32(r.val) THEN Ok(r.d, Char(r.val))
        ELSE Err(r.d, "InvalidChar"))

deserialize_str(d) ==
    Bind(parse_bytes(d), LAMBDA r :
        IF r.err # "" THEN Err(r.d, r.err)
        ELSE IF from_utf8(r.bytes) THEN Ok(r.d, Str(r.bytes))
        ELSE Err(r.d, "InvalidStr"))

deserialize_string(d) == deserialize_str(d)

deserialize_bytes(d) ==
    Bind(parse_bytes(d), LAMBDA r :
        IF r.err # "" THEN Err(r.d, r.err) ELSE Ok(r.d, Bytes(r.bytes)))

deserialize_byte_buf(d) == deserialize_bytes(d)

deserialize_unit(d) == Ok(d, UnitV)

deserialize_unit_struct(d) == deserialize_unit(d)

deserialize_any(d) == Err(d, "Unsupported")

\* mutant: an option is read as None
deserialize_option_none(d) == Ok(d, NoneV)

deserialize_option(d) == Err(d, "Unsupported")

deserialize_map(d) == Err(d, "Unsupported")

deserialize_identifier(d) == Err(d, "Unsupported")

deserialize_ignored_any(d) == Err(d, "Unsupported")

\* EnumAccess::variant_seed: the index is read and handed to the seed, which is
\* the target type's own variant lookup (acc): [d, err, val] with val the
\* accepted variant.
variant_seed(d, acc) ==
    Bind(next_u32(d), LAMBDA idx :
    Bind({i \in 1..Len(acc) : acc[i].idx = idx.val}, LAMBDA hit :
        IF idx.err # "" THEN [d |-> idx.d, err |-> idx.err, val |-> Variant(<<0, 0>>, "", <<>>)]
        ELSE IF hit = {} THEN [d |-> idx.d, err |-> "Message", val |-> Variant(idx.val, "", <<>>)]
        ELSE [d |-> idx.d, err |-> "", val |-> acc[CHOOSE i \in hit : TRUE]]))

RECURSIVE deserialize(_, _)
RECURSIVE next_element_seed(_, _)
RECURSIVE visit_seq_fields(_, _, _)
RECURSIVE visit_seq_elements(_, _, _)

\* SeqAccess::next_element_seed on access = [d, len]: [access, err, some, val]
\* mutant: the count of elements left is never decreased
next_element_seed_endless(access, seed) ==
    IF ~usize_is_zero(access.len)
    THEN Bind(deserialize(access.d, seed), LAMBDA r :
            [access |-> [d |-> r.d, len |-> access.len],
             err |-> r.err, some |-> r.err = "", val |-> r.val])
    ELSE [access |-> access, err |-> "", some |-> FALSE, val |-> UnitV]

next_element_seed(access, seed) ==
    IF ~usize_is_zero(access.len)
    THEN Bind(deserialize(access.d, seed), LAMBDA r :
            [access |-> [d |-> r.d, len |-> usize_sub(access.len, 1)],
             err |-> r.err, some |-> r.err = "", val |-> r.val])
    ELSE [access |-> access, err |-> "", some |-> FALSE, val |-> UnitV]

\* visitor.visit_seq of a tuple / struct target: one next_element per field
\* type; a missing element is the visitor's invalid_length error.
visit_seq_fields(access, tys, got) ==
    IF tys = <<>> THEN [d |-> access.d, err |-> "", val |-> got]
    ELSE Bind(next_element_seed(access, Head(tys)), LAMBDA r :
            IF r.err # "" THEN [d |-> r.access.d, err |-> r.err, val |-> got]
            ELSE IF ~r.some THEN [d |-> r.access.d, err |-> "Message", val |-> got]
            ELSE visit_seq_fields(r.access, Tail(tys), Append(got, r.val)))

\* visitor.visit_seq of a sequence target: next_element until None
visit_seq_elements(access, elem, got) ==
    Bind(next_element_seed(access, elem), LAMBDA r :
        IF r.err # "" THEN [d |-> r.access.d, err |-> r.err, val |-> got]
        ELSE IF ~r.some THEN [d |-> r.access.d, err |-> "", val |-> got]
        ELSE visit_seq_elements(r.access, elem, Append(got, r.val)))

\* deserialize_tuple(len, visitor) for a target with field types tys
deserialize_tuple(d, len, tys) ==
    visit_seq_fields([d |-> d, len |-> usize_of(len)], tys, <<>>)

deserialize_tuple_struct(d, len, tys) == deserialize_tuple(d, len, tys)

deserialize_struct(d, fields, tys) == deserialize_tuple(d, fields, tys)

deserialize_seq(d, elem) ==
    Bind(next_u32(d), LAMBDA len :
        IF len.err # "" THEN [d |-> len.d, err |-> len.err, val |-> <<>>]
        ELSE visit_seq_elements([d |-> len.d, len |-> u32_as_usize(len.val)], elem, <<>>))

\* VariantAccess
unit_variant(d) == [d |-> d, err |-> "", val |-> <<>>]

newtype_variant_seed(d, seed) ==
    Bind(deserialize(d, seed), LAMBDA r :
        [d |-> r.d, err |-> r.err, val |-> IF r.err = "" THEN <<r.val>> ELSE <<>>])

tuple_variant(d, len, tys) == deserialize_tuple(d, len, tys)

struct_variant(d, fields, tys) == deserialize_tuple(d, fields, tys)

\* mutant: an index outside the name table is rejected
deserialize_enum_checked(d, variants, acc) ==
    Bind(variant_seed(d, acc), LAMBDA v :
        IF v.err # "" THEN Err(v.d, v.err)
        ELSE IF ~(v.val.idx[1] = 0 /\ v.val.idx[2] < Len(variants)) THEN Err(v.d, "Message")
        ELSE Bind(CASE v.val.k = "unit" -> unit_variant(v.d)
                    [] v.val.k = "newtype" -> newtype_variant_seed(v.d, v.val.f[1])
                    [] v.val.k = "tuple" -> tuple_variant(v.d, Len(v.val.f), v.val.f)
                    [] v.val.k = "struct" -> struct_variant(v.d, Len(v.val.f), v.val.f),
                  LAMBDA p :
                    IF p.err # "" THEN Err(p.d, p.err)
                    ELSE Ok(p.d, EnumV(v.val.idx, v.val.k, p.val))))

\* deserialize_enum(_name, _variants, visitor): visitor.visit_enum(self); the
\* visitor asks variant_seed for the variant and then the VariantAccess for
\* its payload.  _variants is not read.
deserialize_enum(d, variants, acc) ==
    Bind(variant_seed(d, acc), LAMBDA v :
        IF v.err # "" THEN Err(v.d, v.err)
        ELSE Bind(CASE v.val.k = "unit" -> unit_variant(v.d)
                    [] v.val.k = "newtype" -> newtype_variant_seed(v.d, v.val.f[1])
                    [] v.val.k = "tuple" -> tuple_variant(v.d, Len(v.val.f), v.val.f)
                    [] v.val.k = "struct" -> struct_variant(v.d, Len(v.val.f), v.val.f),
                  LAMBDA p :
                    IF p.err # "" THEN Err(p.d, p.err)
                    ELSE Ok(p.d, EnumV(v.val.idx, v.val.k, p.val))))

deserialize_newtype_struct(d, inner) ==
    Bind(deserialize(d, inner), LAMBDA r :
        IF r.err # "" THEN r ELSE Ok(r.d, NewtypeV(r.val)))

Wrap(r, t) == IF r.err # "" THEN Err(r.d, r.err) ELSE Ok(r.d, V(t, <<>>, FALSE, <<>>, r.val, ""))

\* T::deserialize(deserializer): the target type's Deserialize implementation
\* calls the deserializer method of its kind.
deserialize(d, t) ==
    CASE t.t = "bool" -> deserialize_bool(d)
      [] t.t = "u8" -> deserialize_u8(d)
      [] t.t = "i8" -> deserialize_i8(d)
      [] t.t \in {"u16", "i16"} -> deserialize_primitive(d, t.t, 2)
      [] t.t \in {"u32", "i32"} -> deserialize_primitive(d, t.t, 4)
      [] t.t \in {"u64", "i64"} -> deserialize_primitive(d, t.t, 8)
      [] t.t = "char" -> deserialize_char(d)
      [] t.t = "str" -> deserialize_string(d)
      [] t.t = "bytes" -> deserialize_byte_buf(d)
      [] t.t = "unit" -> deserialize_unit(d)
      [] t.t = "option" -> deserialize_option(d)
      [] t.t = "map" -> deserialize_map(d)
      [] t.t = "any" -> deserialize_any(d)
      [] t.t = "newtype" -> deserialize_newtype_struct(d, t.f[1])
      [] t.t = "seq" -> Wrap(deserialize_seq(d, t.f[1]), "seq")
      [] t.t = "tuple" -> Wrap(deserialize_tuple(d, Len(t.f), t.f), "tuple")
      [] t.t = "struct" -> Wrap(deserialize_struct(d, Len(t.f), t.f), "struct")
      [] t.t = "enum" -> deserialize_enum(d, t.names, t.acc)

\* mutant: the whole input is handed back as the trailing bytes
from_bytes_whole_rest(t, s) ==
    Bind(deserialize(Deserializer_from_bytes(s), t), LAMBDA r :
        IF r.err # "" THEN [err |-> r.err, val |-> UnitV, rest |-> <<>>]
        ELSE [err |-> "", val |-> r.val, rest |-> s])

\* from_bytes::<T>(s): [err, val, rest]
from_bytes(t, s) ==
    Bind(deserialize(Deserializer_from_bytes(s), t), LAMBDA r :
        IF r.err # "" THEN [err |-> r.err, val |-> UnitV, rest |-> <<>>]
        ELSE [err |-> "", val |-> r.val, rest |-> r.d.slice])

-----------------------------------------------------------------------------
(* The values the pipeline is run on, each with the target type it is      *)
(* decoded as.                                                             *)

TU8 == T("u8", <<>>)
TU16 == T("u16", <<>>)
TStr == T("str", <<>>)
TBool == T("bool", <<>>)
TUnit == T("unit", <<>>)

\* an enum whose Deserialize is derived: the name table and the accepted
\* indices agree
TDerived ==
    TEnum(<<"A", "B", "C", "D">>,
          <<Variant(<<0, 0>>, "newtype", <<TU8>>),
            Variant(<<0, 1>>, "unit", <<>>),
            Variant(<<0, 2>>, "tuple", <<TU8, TBool>>),
            Variant(<<0, 3>>, "struct", <<TU16, TStr>>)>>)

\* an enum whose Serialize / Deserialize are written by hand, with variant
\* indices outside the name table
TManual ==
    TEnum(<<"A">>,
          <<Variant(<<0, 9999>>, "unit", <<>>),
            Variant(<<1, 2>>, "newtype", <<TU8>>)>>)

Sample(v, t) == [v |-> v, ty |-> t]

Samples ==
    << Sample(U8(18), TU8),
       Sample(I8(-1), T("i8", <<>>)),
       Sample(U16(4660), TU16),
       Sample(I16(-2), T("i16", <<>>)),
       Sample(U32(<<4660, 22136>>), T("u32", <<>>)),
       Sample(I32(<<-1, 65535>>), T("i32", <<>>)),
       Sample(U64(<<4660, 22136, 34661, 17185>>), T("u64", <<>>)),
       Sample(Bool(TRUE), TBool),
       Sample(Bool(FALSE), TBool),
       Sample(Char(<<0, 97>>), T("char", <<>>)),
       Sample(UnitV, TUnit),
       Sample(Str(<<>>), TStr),
       Sample(Str(<<104, 105>>), TStr),
       Sample(Str(<<195, 169>>), TStr),
       Sample(Str(<<0, 104, 105>>), TStr),
       Sample(Str(<<104, 0, 0, 105>>), TStr),
       Sample(Bytes(<<0, 7>>), T("bytes", <<>>)),
       Sample(SeqV(<<>>), T("seq", <<TU8>>)),
       Sample(SeqV(<<U8(0), U8(1)>>), T("seq", <<TU8>>)),
       Sample(SeqV(<<U16(16), U16(256)>>), T("seq", <<TU16>>)),
       Sample(SeqV(<<UnitV, UnitV>>), T("seq", <<TUnit>>)),
       Sample(SeqV(<<Str(<<97>>)>>), T("seq", <<TStr>>)),
       Sample(TupleV(<<U8(1), U16(2)>>), T("tuple", <<TU8, TU16>>)),
       Sample(StructV(<<U8(0), U16(256), Str(<<97>>)>>), T("struct", <<TU8, TU16, TStr>>)),
       Sample(StructV(<<Str(<<0>>), U8(3)>>), T("struct", <<TStr, TU8>>)),
       Sample(NewtypeV(U16(7)), T("newtype", <<TU16>>)),
       Sample(EnumV(<<0, 0>>, "newtype", <<U8(3)>>), TDerived),
       Sample(EnumV(<<0, 1>>, "unit", <<>>), TDerived),
       Sample(EnumV(<<0, 2>>, "tuple", <<U8(7), Bool(TRUE)>>), TDerived),
       Sample(EnumV(<<0, 3>>, "struct", <<U16(1), Str(<<>>)>>), TDerived),
       Sample(EnumV(<<0, 9999>>, "unit", <<>>), TManual),
       Sample(EnumV(<<1, 2>>, "newtype", <<U8(255)>>), TManual),
       Sample(SomeV(U8(5)), T("option", <<TU8>>)),
       Sample(NoneV, T("option", <<TU8>>)),
       Sample(TupleV(<<U8(1), SomeV(U16(2))>>), T("tuple", <<TU8, T("option", <<TU16>>)>>)),
       Sample(MapV(<<>>), T("map", <<>>)) >>

-----------------------------------------------------------------------------
(* The encode / decode pipeline: to_bytes(value), the payload cut into     *)
(* chunks from the left, and a decode of the bytes cut so far, either by   *)
(* from_bytes or through Deserializer::new(chunks).                        *)

MaxChunks == 4      \* non-empty chunks
MaxEmpty == 2       \* empty chunks

NoRes == [mode |-> "none", err |-> "", val |-> UnitV, slice |-> <<>>, iter |-> <<>>]

\* the outcome of from_bytes: (value, trailing bytes) or an error
Contiguous(r) ==
    [mode |-> "contiguous", err |-> r.err, val |-> r.val, slice |-> r.rest, iter |-> <<>>]

\* the outcome of T::deserialize and deserializer.into_inner()
Chunked(r) ==
    [mode |-> "chunked", err |-> r.err, val |-> r.val, slice |-> r.d.slice, iter |-> r.d.iter]

Count(seq, empty) == Cardinality({i \in 1..Len(seq) : (seq[i] = <<>>) = empty})

NoSRes == [op |-> "", arg |-> <<>>, err |-> "", hdr |-> <<>>, before |-> Serializer_new(<<>>)]
NoDRes == [op |-> "", err |-> "", val |-> UnitV, before |-> Deserializer_new(<<>>)]
NoTOut == [err |-> "", bytes |-> <<>>, before |-> <<>>]
NoTRes == [err |-> "", val |-> UnitV, rest |-> <<>>]

\* no pipeline is run
PipeIdle ==
    /\ value = UnitV /\ ty = TUnit
    /\ buffer = [err |-> "", bytes |-> <<>>]
    /\ input = <<>> /\ rest = <<>> /\ chunks = <<>>
    /\ res = NoRes
    /\ pc = "idle"

\* no object is driven call by call
OpsIdle ==
    /\ obj = ""
    /\ ser = Serializer_new(<<>>) /\ sres = NoSRes /\ written = 0
    /\ de = Deserializer_new(<<>>) /\ dres = NoDRes

\* no Transformer is used
TIdle ==
    /\ transformer = Serializer_new(<<>>)
    /\ tval = UnitV /\ tty = TUnit
    /\ tout = NoTOut /\ tres = NoTRes
    /\ tn = 0
    /\ tpc = "idle"

NoLast ==
    [op |-> "", arg |-> <<>>, err |-> "", cow |-> "", bytes |-> <<>>, val |-> UnitV,
     some |-> FALSE, before |-> Deserializer_new(<<>>)]

\* no Deserializer is read call by call
DeIdle ==
    /\ reader = Deserializer_new(<<>>) /\ built = ""
    /\ seq_access = <<>> /\ last = NoLast /\ eof = FALSE
    /\ supplied = <<>> /\ returned = <<>>

Init ==
    /\ \E i \in 1..Len(Samples) : value = Samples[i].v /\ ty = Samples[i].ty
    /\ buffer = [err |-> "", bytes |-> <<>>]
    /\ input = <<>>
    /\ rest = <<>>
    /\ chunks = <<>>
    /\ res = NoRes
    /\ pc = "start"
    /\ OpsIdle /\ TIdle /\ DeIdle

\* let serialized = to_bytes(value); let serialized = &serialized[4..];
Encode ==
    /\ pc = "start"
    /\ buffer' = to_bytes(value)
    /\ pc' = IF buffer'.err = "" THEN "encoded" ELSE "failed"
    /\ rest' = SubSeq(buffer'.bytes, 5, Len(buffer'.bytes))
    /\ UNCHANGED <<value, ty, input, chunks, res, opsvars, tvars, devars>>

\* the next n bytes become a chunk (n = 0: an empty chunk)
PushChunk(n) ==
    /\ pc = "encoded"
    /\ IF n = 0 THEN Count(chunks, TRUE) < MaxEmpty ELSE Count(chunks, FALSE) < MaxChunks
    /\ chunks' = Append(chunks, SubSeq(rest, 1, n))
    /\ input' = input \o SubSeq(rest, 1, n)
    /\ rest' = SubSeq(rest, n + 1, Len(rest))
    /\ UNCHANGED <<value, ty, buffer, res, pc, opsvars, tvars, devars>>

\* from_bytes::<T>(input), the input being one buffer
FromBytes ==
    /\ pc = "encoded"
    /\ Len(chunks) <= 1
    /\ res' = Contiguous(from_bytes(ty, input))
    /\ pc' = "decoded"
    /\ UNCHANGED <<value, ty, buffer, input, rest, chunks, opsvars, tvars, devars>>

\* the bytes that may follow the bytes cut so far in one buffer
Trailers == {<<7>>, <<0, 0, 0, 1, 9>>}

\* from_bytes::<T>(s), s being the bytes cut so far and more bytes after them
FromBytesTrailing(extra) ==
    /\ pc = "encoded"
    /\ Len(chunks) <= 1
    /\ input' = input \o extra
    /\ res' = Contiguous(from_bytes(ty, input \o extra))
    /\ pc' = "decoded_rest"
    /\ UNCHANGED <<value, ty, buffer, rest, chunks, opsvars, tvars, devars>>

\* T::deserialize(&mut Deserializer::new(chunks)); deserializer.into_inner()
DeserializeChunks ==
    /\ pc = "encoded"
    /\ res' = Chunked(deserialize(Deserializer_new(chunks), ty))
    /\ pc' = "decoded"
    /\ UNCHANGED <<value, ty, buffer, input, rest, chunks, opsvars, tvars, devars>>

Next ==
    \/ Encode
    \/ \E n \in 0..Len(rest) : PushChunk(n)
    \/ FromBytes
    \/ \E extra \in Trailers : FromBytesTrailing(extra)
    \/ DeserializeChunks

Spec == Init /\ [][Next]_vars

-----------------------------------------------------------------------------
(* One Serializer or one Deserializer driven call by call.                 *)

MaxOut == 6         \* bytes a Serializer is driven to
MaxBefore == 1      \* bytes in the output before an integer is written

\* the bytes the words handed to a Deserializer are made of
ByteVals == {0, 1, 2, 255}

\* the lengths handed to serialize_seq and serialize_map: None, Some(0),
\* Some(2), Some(2^32), Some(2^63)
LenHints ==
    {<<>>, <<usize_of(0)>>, <<usize_of(2)>>, <<(<<0, 1, 0, 0>>)>>, <<(<<32768, 0, 0, 0>>)>>}

\* the lengths handed to create_header: 0, 3, u32::MAX - 1, u32::MAX
HeaderLens == {<<0, 0>>, <<0, 3>>, <<65535, 65534>>, <<65535, 65535>>}

\* integers and characters with the bytes they are to be written as
IntVectors ==
    << [v |-> U8(255), bytes |-> <<255>>],
       [v |-> I8(-128), bytes |-> <<128>>],
       [v |-> I8(-1), bytes |-> <<255>>],
       [v |-> U16(4660), bytes |-> <<18, 52>>],
       [v |-> I16(-32768), bytes |-> <<128, 0>>],
       [v |-> I16(-2), bytes |-> <<255, 254>>],
       [v |-> U32(<<4660, 22136>>), bytes |-> <<18, 52, 86, 120>>],
       [v |-> I32(<<-32768, 0>>), bytes |-> <<128, 0, 0, 0>>],
       [v |-> I32(<<-1, 65535>>), bytes |-> <<255, 255, 255, 255>>],
       [v |-> U64(<<4660, 22136, 34661, 17185>>), bytes |-> <<18, 52, 86, 120, 135, 101, 67, 33>>],
       [v |-> I64(<<-32768, 0, 0, 0>>), bytes |-> <<128, 0, 0, 0, 0, 0, 0, 0>>],
       [v |-> I64(<<-1, 65535, 65535, 65534>>),
        bytes |-> <<255, 255, 255, 255, 255, 255, 255, 254>>],
       [v |-> Char(<<0, 97>>), bytes |-> <<0, 0, 0, 97>>],
       [v |-> Char(<<16, 65535>>), bytes |-> <<0, 16, 255, 255>>] >>

\* words around the ends of the Unicode scalar values: U+D7FF, U+D800,
\* U+DFFF, U+E000, U+10FFFF, 0x110000
CharWords ==
    { <<0, 0, 215, 255>>, <<0, 0, 216, 0>>, <<0, 0, 223, 255>>, <<0, 0, 224, 0>>,
      <<0, 16, 255, 255>>, <<0, 17, 0, 0>> }

\* a Serializer over an empty Vec, or a Deserializer over one 4-byte word cut
\* in two chunks at k
InitOps ==
    /\ PipeIdle /\ TIdle /\ DeIdle
    /\ sres = NoSRes /\ written = 0 /\ dres = NoDRes
    /\ \/ /\ obj = "Serializer"
          /\ ser = Serializer_new(<<>>)
          /\ de = Deserializer_new(<<>>)
       \/ /\ obj = "Deserializer"
          /\ ser = Serializer_new(<<>>)
          /\ \E w \in [1..4 -> ByteVals] \cup CharWords, k \in 0..4 :
                de = Deserializer_new(<<SubSeq(w, 1, k), SubSeq(w, k + 1, 4)>>)

\* a call of a serializer method that returned r
SerCall(op, arg, r) ==
    /\ obj = "Serializer"
    /\ Len(ser.output) < MaxOut /\ written < MaxOut
    /\ ser' = [r EXCEPT !.err = ""]
    /\ sres' = [op |-> op, arg |-> arg, err |-> r.err, hdr |-> <<>>, before |-> ser]
    /\ written' = written + (Len(r.output) - Len(ser.output))
    /\ UNCHANGED <<obj, de, dres, pipevars, tvars, devars>>

SerializeU8(v) == SerCall("serialize_u8", <<v>>, serialize_u8(ser, v))

SerializeBool(q) == SerCall("serialize_bool", <<q>>, serialize_bool(ser, q))

\* serialize_u8 .. serialize_i64 or serialize_char, by the type of the value
\* onto an output of at most MaxBefore bytes
SerializeInt(i) ==
    /\ Len(ser.output) <= MaxBefore
    /\ SerCall("serialize_int", <<i>>, serialize(ser, IntVectors[i].v))

SerializeUnitVariant(i) == SerCall("serialize_unit_variant", i, serialize_unit_variant(ser, i))

SerializeSeq(len) == SerCall("serialize_seq", len, serialize_seq(ser, len))

SerializeMap(len) == SerCall("serialize_map", len, serialize_map(ser, len))

CreateHeader(len) ==
    /\ obj = "Serializer"
    /\ sres' = [op |-> "create_header", arg |-> len, err |-> create_header(ser, len).err,
                hdr |-> create_header(ser, len).val, before |-> ser]
    /\ UNCHANGED <<obj, ser, written, de, dres, pipevars, tvars, devars>>

ResetCounter ==
    /\ obj = "Serializer"
    /\ ser' = reset_counter(ser)
    /\ sres' = [op |-> "reset_counter", arg |-> <<>>, err |-> "", hdr |-> <<>>, before |-> ser]
    /\ written' = 0
    /\ UNCHANGED <<obj, de, dres, pipevars, tvars, devars>>

\* serializer.output.clear(): the output is a public field
OutputClear ==
    /\ obj = "Serializer"
    /\ ser' = [ser EXCEPT !.output = <<>>]
    /\ sres' = [op |-> "output.clear", arg |-> <<>>, err |-> "", hdr |-> <<>>, before |-> ser]
    /\ UNCHANGED <<obj, written, de, dres, pipevars, tvars, devars>>

\* a call of a deserializer method that returned r
DeCall(op, r) ==
    /\ obj = "Deserializer"
    /\ de' = r.d
    /\ dres' = [op |-> op, err |-> r.err, val |-> r.val, before |-> de]
    /\ UNCHANGED <<obj, ser, sres, written, pipevars, tvars, devars>>

DeserializeBool == DeCall("deserialize_bool", deserialize_bool(de))

DeserializeU8 == DeCall("deserialize_u8", deserialize_u8(de))

DeserializeChar == DeCall("deserialize_char", deserialize_char(de))

DeserializeMap == DeCall("deserialize_map", deserialize_map(de))

DeserializeAny == DeCall("deserialize_any", deserialize_any(de))

NextOps ==
    \/ \E v \in {0, 255} : SerializeU8(v)
    \/ \E q \in BOOLEAN : SerializeBool(q)
    \/ \E i \in 1..Len(IntVectors) : SerializeInt(i)
    \/ SerializeUnitVariant(<<0, 1>>)
    \/ \E len \in LenHints : SerializeSeq(len)
    \/ \E len \in LenHints : SerializeMap(len)
    \/ \E len \in HeaderLens : CreateHeader(len)
    \/ ResetCounter
    \/ OutputClear
    \/ DeserializeBool
    \/ DeserializeU8
    \/ DeserializeChar
    \/ DeserializeMap
    \/ DeserializeAny

SpecOps == InitOps /\ [][NextOps]_vars

-----------------------------------------------------------------------------
(* One Transformer used for one value after another; between two values    *)
(* the caller may change the buffer through get_buffer or get_ser.         *)

MaxMsgs == 2        \* values serialized with one Transformer

\* Vec::resize(new_len, value)
resize(vec, new_len, v) ==
    IF Len(vec) >= new_len THEN SubSeq(vec, 1, new_len)
    ELSE vec \o [i \in 1..(new_len - Len(vec)) |-> v]

\* Serializer::get_output: the payload length, the bytes of the output less
\* the 4 reserved for the header, is written big-endian over those 4 bytes and
\* the output returned; TooLong when the length does not fit a u32.
get_output(s) ==
    Bind(usize_to_u32(usize_of(Len(s.output) - 4)), LAMBDA len :
        IF len.err # "" THEN [s |-> s, err |-> len.err, bytes |-> <<>>]
        ELSE Bind([s EXCEPT !.output = to_be_bytes(len.val) \o SubSeq(@, 5, Len(@))], LAMBDA s1 :
                [s |-> s1, err |-> "", bytes |-> s1.output]))

\* mutant: the buffer is not cut back to its 4 header bytes
Transformer_serialize_appending(t, v) ==
    Bind(serialize([t EXCEPT !.output = IF Len(@) < 4 THEN resize(@, 4, 0) ELSE @], v),
         LAMBDA s1 :
            IF s1.err # "" THEN [s |-> Fail(s1, ""), err |-> s1.err, bytes |-> <<>>]
            ELSE get_output(s1))

\* Transformer::serialize: [s, err, bytes]
Transformer_serialize(t, v) ==
    Bind(serialize([t EXCEPT !.output = resize(@, 4, 0)], v), LAMBDA s1 :
        IF s1.err # "" THEN [s |-> Fail(s1, ""), err |-> s1.err, bytes |-> <<>>]
        ELSE get_output(s1))

Transformer_get_ser(t) == [t EXCEPT !.output = resize(@, 4, 0)]

Transformer_get_buffer(t) == t.output

Transformer_deserialize(t, target) == from_bytes(target, t.output)

\* the values handed to the Transformer, by their place in Samples: a u8, a
\* u64, unit, two strings (one with a NUL byte), a struct, an enum variant
\* and a map
Messages == {1, 7, 11, 13, 15, 24, 30, 36}

\* what a caller does to the Vec that get_buffer hands out
Edits == {"clear", "truncate", "fill", "push"}

Edit(vec, e) ==
    CASE e = "clear" -> <<>>
      [] e = "truncate" -> resize(vec, 2, 0)
      [] e = "fill" -> [i \in 1..Len(vec) |-> 255]
      [] e = "push" -> vec \o <<7, 7>>

InitT ==
    /\ PipeIdle /\ OpsIdle /\ TIdle /\ DeIdle

T_Serialize(i) ==
    /\ tn < MaxMsgs
    /\ tval' = Samples[i].v
    /\ tty' = Samples[i].ty
    /\ transformer' = Transformer_serialize(transformer, Samples[i].v).s
    /\ tout' = [err |-> Transformer_serialize(transformer, Samples[i].v).err,
                bytes |-> Transformer_serialize(transformer, Samples[i].v).bytes,
                before |-> transformer.output]
    /\ tpc' = IF tout'.err = "" THEN "serialized" ELSE "failed"
    /\ tn' = tn + 1
    /\ UNCHANGED <<tres, pipevars, opsvars, devars>>

\* transformer.get_buffer() and a change of the Vec
T_GetBuffer(e) ==
    /\ tpc \notin {"idle", "edited"}
    /\ transformer' = [transformer EXCEPT !.output = Edit(Transformer_get_buffer(transformer), e)]
    /\ tpc' = "edited"
    /\ UNCHANGED <<tval, tty, tout, tres, tn, pipevars, opsvars, devars>>

T_GetSer ==
    /\ tpc \notin {"idle", "edited"}
    /\ transformer' = Transformer_get_ser(transformer)
    /\ tpc' = "edited"
    /\ UNCHANGED <<tval, tty, tout, tres, tn, pipevars, opsvars, devars>>

\* for _ in 0..4 { transformer.get_buffer().remove(0); }
T_Remove4 ==
    /\ tpc = "serialized"
    /\ transformer' = [transformer EXCEPT !.output = SubSeq(@, 5, Len(@))]
    /\ tpc' = "payload"
    /\ UNCHANGED <<tval, tty, tout, tres, tn, pipevars, opsvars, devars>>

T_Deserialize ==
    /\ tpc = "payload"
    /\ tres' = Transformer_deserialize(transformer, tty)
    /\ tpc' = "decoded"
    /\ UNCHANGED <<transformer, tval, tty, tout, tn, pipevars, opsvars, devars>>

NextT ==
    \/ \E i \in Messages : T_Serialize(i)
    \/ \E e \in Edits : T_GetBuffer(e)
    \/ T_GetSer
    \/ T_Remove4
    \/ T_Deserialize

SpecT == InitT /\ [][NextT]_vars

-----------------------------------------------------------------------------
(* One Deserializer, over one buffer or over chunks, whose reads are       *)
(* called one by one.                                                      *)

MaxCuts == 2        \* places where the input is cut into chunks
MaxCalls == 4       \* next_element_seed calls on one Access

\* the inputs: a string or a sequence of two with a byte after it, a length
\* that the input falls short of, an empty string, a string that is not
\* UTF-8, a length of u32::MAX, and nothing
Streams ==
    { <<0, 0, 0, 2, 104, 105, 7>>, <<0, 0, 0, 3, 1, 2>>, <<0, 0, 0, 0>>,
      <<0, 0, 0, 1, 255>>, <<255, 255, 255, 255, 1>>, <<>> }

\* the sizes handed to next_bytes: 0..3 and u32::MAX
Sizes == {usize_of(0), usize_of(1), usize_of(2), usize_of(3), <<0, 0, 65535, 65535>>}

\* the element types a sequence is visited with
ElemTypes == {TU8, TU16, TUnit}

\* bytes cut at the places cuts[i..], in order: Len(cuts) - i + 2 chunks
RECURSIVE Cut(_, _, _, _)
Cut(bytes, cuts, i, from) ==
    IF i > Len(cuts) THEN <<SubSeq(bytes, from + 1, Len(bytes))>>
    ELSE <<SubSeq(bytes, from + 1, cuts[i])>> \o Cut(bytes, cuts, i + 1, cuts[i])

InitDe ==
    /\ PipeIdle /\ OpsIdle /\ TIdle
    /\ seq_access = <<>> /\ last = NoLast /\ eof = FALSE
    /\ returned = <<>>
    /\ \E bytes \in Streams :
        \/ /\ built = "from_bytes" /\ reader = Deserializer_from_bytes(bytes)
           /\ supplied = <<bytes>>
        \/ /\ built = "new"
           /\ \E cuts \in [1..MaxCuts -> 0..Len(bytes)] :
                /\ \A i \in 1..(MaxCuts - 1) : cuts[i] <= cuts[i + 1]
                /\ reader = Deserializer_new(Cut(bytes, cuts, 1, 0))
                /\ supplied = Cut(bytes, cuts, 1, 0)

\* the bytes that next_byte, next_bytes_const::<SIZE>, next_bytes and
\* parse_bytes hand back to their caller: none when the read fails
ByteGot(d) == IF next_byte(d).err = "" THEN <<next_byte(d).byte>> ELSE <<>>

ConstGot(d, SIZE) ==
    IF next_bytes_const(d, SIZE).err = "" THEN next_bytes_const(d, SIZE).bytes ELSE <<>>

BytesGot(d, size) ==
    IF next_bytes(d, size).err = "" THEN next_bytes(d, size).bytes ELSE <<>>

ParseGot(d) ==
    ConstGot(d, 4) \o (IF next_u32(d).err = ""
                       THEN BytesGot(next_u32(d).d, u32_as_usize(next_u32(d).val))
                       ELSE <<>>)

\* the bytes the read of one element of type elem hands back, len elements
\* being left
ElemGot(d, len, elem) ==
    IF usize_is_zero(len) THEN <<>>
    ELSE CASE elem.t = "u8" -> ByteGot(d)
           [] elem.t = "u16" -> ConstGot(d, 2)
           [] elem.t = "unit" -> <<>>

\* a read that returned r = [d, err, ...]; cow and bytes are those of the
\* Cow it returned or matched on, val the value it handed to the visitor, got
\* the bytes its reads of the source handed back
Read(op, arg, r, cow, bytes, val, got) ==
    /\ built # "" /\ seq_access = <<>>
    /\ reader' = r.d
    /\ returned' = returned \o got
    /\ last' = [op |-> op, arg |-> arg, err |-> r.err, cow |-> cow, bytes |-> bytes,
                val |-> val, some |-> FALSE, before |-> reader]
    /\ eof' = (eof \/ r.err = "Eof")
    /\ UNCHANGED <<built, supplied, seq_access, pipevars, opsvars, tvars>>

NextByte ==
    Read("next_byte", <<>>, next_byte(reader), "", <<next_byte(reader).byte>>, UnitV,
         ByteGot(reader))

NextU32 ==
    Read("next_u32", <<>>, next_u32(reader), "", <<>>, U32(next_u32(reader).val),
         ConstGot(reader, 4))

NextBytes(size) ==
    Read("next_bytes", size, next_bytes(reader, size),
         next_bytes(reader, size).cow, next_bytes(reader, size).bytes, UnitV,
         BytesGot(reader, size))

ParseBytes ==
    Read("parse_bytes", <<>>, parse_bytes(reader),
         parse_bytes(reader).cow, parse_bytes(reader).bytes, UnitV,
         ParseGot(reader))

\* deserialize_str matches on the Cow that parse_bytes returns
DeserializeStr ==
    Read("deserialize_str", <<>>, deserialize_str(reader),
         parse_bytes(reader).cow, parse_bytes(reader).bytes, deserialize_str(reader).val,
         ParseGot(reader))

DeserializeBytes ==
    Read("deserialize_bytes", <<>>, deserialize_bytes(reader),
         parse_bytes(reader).cow, parse_bytes(reader).bytes, deserialize_bytes(reader).val,
         ParseGot(reader))

\* deserialize_seq up to the call of visitor.visit_seq(Access {deserializer, len})
DeserializeSeqBegin ==
    /\ built # "" /\ seq_access = <<>>
    /\ reader' = next_u32(reader).d
    /\ last' = [op |-> "deserialize_seq", arg |-> <<>>, err |-> next_u32(reader).err,
                cow |-> "", bytes |-> <<>>, val |-> U32(next_u32(reader).val),
                some |-> FALSE, before |-> reader]
    /\ seq_access' = IF next_u32(reader).err # "" THEN <<>>
                 ELSE <<[len |-> u32_as_usize(next_u32(reader).val),
                         n |-> u32_as_usize(next_u32(reader).val), calls |-> 0]>>
    /\ eof' = (eof \/ next_u32(reader).err = "Eof")
    /\ returned' = returned \o ConstGot(reader, 4)
    /\ UNCHANGED <<built, supplied, pipevars, opsvars, tvars>>

\* the visitor asks the Access for one more element of type elem
NextElement(elem) ==
    /\ seq_access # <<>> /\ seq_access[1].calls < MaxCalls
    /\ reader' = next_element_seed([d |-> reader, len |-> seq_access[1].len], elem).access.d
    /\ seq_access' = <<[seq_access[1] EXCEPT
                        !.len = next_element_seed([d |-> reader, len |-> seq_access[1].len], elem).access.len,
                        !.calls = @ + 1]>>
    /\ last' = [op |-> "next_element_seed", arg |-> <<elem.t>>,
                err |-> next_element_seed([d |-> reader, len |-> seq_access[1].len], elem).err,
                cow |-> "", bytes |-> <<>>,
                val |-> next_element_seed([d |-> reader, len |-> seq_access[1].len], elem).val,
                some |-> next_element_seed([d |-> reader, len |-> seq_access[1].len], elem).some,
                before |-> reader]
    /\ eof' = (eof \/ next_element_seed([d |-> reader, len |-> seq_access[1].len], elem).err = "Eof")
    /\ returned' = returned \o ElemGot(reader, seq_access[1].len, elem)
    /\ UNCHANGED <<built, supplied, pipevars, opsvars, tvars>>

\* the visitor returns and the Access is dropped
VisitSeqEnd ==
    /\ seq_access # <<>>
    /\ seq_access' = <<>>
    /\ UNCHANGED <<reader, built, last, eof, supplied, returned, pipevars, opsvars, tvars>>

NextDe ==
    \/ NextByte
    \/ NextU32
    \/ \E size \in Sizes : NextBytes(size)
    \/ ParseBytes
    \/ DeserializeStr
    \/ DeserializeBytes
    \/ DeserializeSeqBegin
    \/ \E elem \in ElemTypes : NextElement(elem)
    \/ VisitSeqEnd

SpecDe == InitDe /\ [][NextDe]_vars

-----------------------------------------------------------------------------
(* Properties of the pipeline.                                             *)

Payload == SubSeq(buffer.bytes, 5, Len(buffer.bytes))

\* some node of v has a kind in kinds
RECURSIVE HasKind(_, _)
HasKind(v, kinds) == v.t \in kinds \/ \E i \in 1..Len(v.f) : HasKind(v.f[i], kinds)

\* some string of v holds a NUL byte
RECURSIVE HasNulStr(_)
HasNulStr(v) ==
    \/ v.t = "str" /\ \E i \in 1..Len(v.b) : v.b[i] = 0
    \/ \E i \in 1..Len(v.f) : HasNulStr(v.f[i])

\* v with the NUL bytes of its strings removed
RECURSIVE StripNul(_)
StripNul(v) ==
    [v EXCEPT !.b = IF v.t = "str" THEN SelectSeq(@, LAMBDA c : c # 0) ELSE @,
              !.f = [i \in 1..Len(@) |-> StripNul(@[i])]]

\* integers, booleans, characters, strings, byte strings, unit, sequences,
\* tuples, structs, newtypes and enums of them
Supported(v) == ~HasKind(v, {"none", "some", "map"})

\* the big-endian bytes of a natural below 2^31, written out
BE32(n) == <<(n \div 16777216) % 256, (n \div 65536) % 256, (n \div 256) % 256, n % 256>>

WholeDecoded == pc = "decoded" /\ rest = <<>>

\* C1 as stated: decoding the payload of to_bytes(v) with from_bytes yields a
\* value equal to v, for every supported value v.
C1_RoundTrip ==
    (WholeDecoded /\ res.mode = "contiguous" /\ Supported(value))
        => (res.err = "" /\ res.val = value)

\* C1 amended: decoding the payload of to_bytes(v) with from_bytes yields v
\* with the NUL bytes of its strings removed, which is v itself when no string
\* of v holds a NUL byte.
C1_RoundTripStripped ==
    (WholeDecoded /\ res.mode = "contiguous" /\ Supported(value))
        => /\ res.err = ""
           /\ res.val = StripNul(value)
           /\ ~HasNulStr(value) => res.val = value

C1_Witness ==
    /\ WholeDecoded /\ res.mode = "contiguous"
    /\ value.t = "struct" /\ ~HasNulStr(value)
    /\ res.val = value

\* C2: the first 4 bytes of a successful to_bytes result are the big-endian
\* u32 of the length of the result minus 4.
C2_HeaderCorrect ==
    (pc \in {"encoded", "decoded"})
        => /\ buffer.err = ""
           /\ Len(buffer.bytes) >= 4
           /\ SubSeq(buffer.bytes, 1, 4) = BE32(Len(buffer.bytes) - 4)

C2_Witness == pc = "encoded" /\ value.t = "str" /\ Len(buffer.bytes) = 10

AllEmpty(iter) == \A i \in 1..Len(iter) : iter[i] = <<>>

C4_Truncation ==
    (pc = "decoded" /\ rest # <<>> /\ from_bytes(ty, Payload).err = "")
        => res.err = "Eof"

C4_Witness ==
    /\ pc = "decoded" /\ rest # <<>> /\ res.mode = "chunked"
    /\ value.t = "u32" /\ Len(chunks) = 2 /\ Len(input) = 3
    /\ res.err = "Eof"

\* C8: a variant with index i and payload p encodes as the 4 big-endian bytes
\* of i followed by the encoding of p and nothing else; decoding reads the
\* index and hands it to the target's own variant lookup, whatever the name
\* table holds, and the payload is decoded from the bytes that follow.
C8_EnumFidelity ==
    (value.t = "enum" /\ pc \in {"encoded", "decoded"})
        => /\ Payload = <<value.n[1] \div 256, value.n[1] % 256,
                          value.n[2] \div 256, value.n[2] % 256>>
                        \o serialize_fields(Serializer_new(<<>>), value.f).output
           /\ WholeDecoded
                => /\ res.err = ""
                   /\ res.val.t = "enum"
                   /\ res.val.n = value.n
                   /\ res.val.k = value.k
                   /\ res.val.f = StripNul(value).f
                   /\ res.slice = <<>>
           /\ (pc = "decoded" /\ Len(input) < 4) => res.err = "Eof"

C8_Witness ==
    /\ WholeDecoded /\ value.t = "enum" /\ res.err = ""
    /\ value.n = <<1, 2>> /\ ty.names = <<"A">>
    /\ res.val.f = <<U8(255)>>

\* C11: when from_bytes(s) succeeds, the rest it returns is the suffix of s
\* after the bytes the value was decoded from: the prefix of s before the rest
\* decodes, alone, to the same value with nothing left, and after the whole
\* payload of a value the rest is what followed the payload; decoding the
\* payload alone leaves an empty rest.
C11_TrailingBytes ==
    /\ (pc = "decoded_rest" /\ res.err = "")
        => /\ Len(res.slice) <= Len(input)
           /\ res.slice = SubSeq(input, Len(input) - Len(res.slice) + 1, Len(input))
           /\ from_bytes(ty, SubSeq(input, 1, Len(input) - Len(res.slice)))
                = [err |-> "", val |-> res.val, rest |-> <<>>]
           /\ (rest = <<>> /\ Supported(value))
                => res.slice = SubSeq(input, Len(Payload) + 1, Len(input))
    /\ (pc = "decoded_rest" /\ rest = <<>> /\ Supported(value)) => res.err = ""
    /\ (WholeDecoded /\ res.mode = "contiguous" /\ res.err = "") => res.slice = <<>>

C11_Witness ==
    /\ pc = "decoded_rest" /\ rest = <<>> /\ res.err = ""
    /\ value.t = "struct" /\ res.val = value
    /\ res.slice = <<0, 0, 0, 1, 9>>

-----------------------------------------------------------------------------
(* Properties of a Serializer or Deserializer driven call by call.         *)

\* the bytes a Deserializer has not yet consumed
RECURSIVE Concat(_)
Concat(ss) == IF ss = <<>> THEN <<>> ELSE Head(ss) \o Concat(Tail(ss))

Unread(d) == d.slice \o Concat(d.iter)

\* C5: serialize_map, whatever the length hint, deserialize_map and
\* deserialize_any fail with Unsupported; none writes an output byte or
\* consumes an input byte.
C5_MapRejection ==
    /\ sres.op = "serialize_map"
        => /\ sres.err = "Unsupported"
           /\ ser.output = sres.before.output
           /\ ser = sres.before
    /\ dres.op \in {"deserialize_map", "deserialize_any"}
        => /\ dres.err = "Unsupported"
           /\ Unread(de) = Unread(dres.before)
           /\ de = dres.before

C5_Witness ==
    /\ sres.op = "serialize_map" /\ sres.arg = <<usize_of(0)>>
    /\ sres.err = "Unsupported"
    /\ Len(ser.output) = 5

C5_WitnessDe ==
    /\ dres.op = "deserialize_any" /\ dres.err = "Unsupported"
    /\ Unread(de) = <<0, 1>>

\* C6 as stated: serialize_seq without a length fails with an error, and with
\* a length n (a u32) it writes n as a 4-byte big-endian count.
C6_SeqNeedsLen ==
    sres.op = "serialize_seq"
        => /\ sres.arg = <<>> => sres.err # ""
           /\ (sres.arg # <<>> /\ sres.arg[1][1] = 0 /\ sres.arg[1][2] = 0)
                => /\ sres.err = ""
                   /\ ser.output = sres.before.output
                        \o <<sres.arg[1][3] \div 256, sres.arg[1][3] % 256,
                             sres.arg[1][4] \div 256, sres.arg[1][4] % 256>>

\* what serialize_seq does: without a length it succeeds and writes nothing;
\* with a length n it writes n as a 4-byte big-endian count, or fails with
\* TooLong and writes nothing when n does not fit a u32 and 4 + n is a
\* capacity the output can be asked for.
C6_SeqAsCoded ==
    sres.op = "serialize_seq"
        => /\ sres.arg = <<>> => (sres.err = "" /\ ser = sres.before)
           /\ (sres.arg # <<>> /\ sres.arg[1][1] = 0 /\ sres.arg[1][2] = 0)
                => /\ sres.err = ""
                   /\ ser.output = sres.before.output
                        \o <<sres.arg[1][3] \div 256, sres.arg[1][3] % 256,
                             sres.arg[1][4] \div 256, sres.arg[1][4] % 256>>
           /\ (sres.arg # <<>> /\ ~(sres.arg[1][1] = 0 /\ sres.arg[1][2] = 0)
                 /\ sres.arg[1][1] < 32768)
                => (sres.err = "TooLong" /\ ser = sres.before)

C6_Witness ==
    /\ sres.op = "serialize_seq" /\ sres.arg = <<>>
    /\ sres.err = "" /\ ser.output = <<255>>

\* C7: in a boolean position the word 0 decodes to false and 1 to true, every
\* other 4-byte word fails with InvalidBoolEncoding; true encodes to
\* [0,0,0,1] and false to [0,0,0,0].
C7_BoolDomain ==
    /\ (dres.op = "deserialize_bool" /\ Len(Unread(dres.before)) >= 4)
        => /\ SubSeq(Unread(dres.before), 1, 4) = <<0, 0, 0, 0>>
                => (dres.err = "" /\ dres.val = Bool(FALSE))
           /\ SubSeq(Unread(dres.before), 1, 4) = <<0, 0, 0, 1>>
                => (dres.err = "" /\ dres.val = Bool(TRUE))
           /\ SubSeq(Unread(dres.before), 1, 4) \notin {<<0, 0, 0, 0>>, <<0, 0, 0, 1>>}
                => dres.err = "InvalidBoolEncoding"
           /\ Unread(de) = SubSeq(Unread(dres.before), 5, Len(Unread(dres.before)))
    /\ sres.op = "serialize_bool"
        => /\ sres.err = ""
           /\ ser.output = sres.before.output
                \o (IF sres.arg[1] THEN <<0, 0, 0, 1>> ELSE <<0, 0, 0, 0>>)

C7_Witness ==
    /\ dres.op = "deserialize_bool"
    /\ dres.before.iter = << <<0, 0>>, <<1, 0>> >>
    /\ dres.err = "InvalidBoolEncoding"

\* written + n for a u32 n, as two limbs and a carry
HeaderSum(n) ==
    <<n[1] + ((n[2] + written) \div 65536), (n[2] + written) % 65536>>

Fits32(x) == x[1] < 65536

\* C9 as stated: create_header(n) returns the big-endian u32 of the bytes
\* serialized since construction or the last reset_counter plus n; after
\* reset_counter, create_header(0) is [0,0,0,0] until something is serialized.
C9_SerializerReuse ==
    sres.op = "create_header"
        => /\ sres.err = ""
           /\ Fits32(HeaderSum(sres.arg))
                => sres.hdr = <<HeaderSum(sres.arg)[1] \div 256, HeaderSum(sres.arg)[1] % 256,
                                HeaderSum(sres.arg)[2] \div 256, HeaderSum(sres.arg)[2] % 256>>
           /\ (written = 0 /\ sres.arg = <<0, 0>>) => sres.hdr = <<0, 0, 0, 0>>

\* C9 amended: create_header(n) returns the big-endian u32 of the bytes
\* serialized since construction or the last reset_counter plus n when that sum
\* fits a u32 and fails with TooLong when it does not; after reset_counter,
\* create_header(0) is [0,0,0,0] until something is serialized.
C9_SerializerReuseFits ==
    sres.op = "create_header"
        => /\ Fits32(HeaderSum(sres.arg))
                => /\ sres.err = ""
                   /\ sres.hdr = <<HeaderSum(sres.arg)[1] \div 256, HeaderSum(sres.arg)[1] % 256,
                                   HeaderSum(sres.arg)[2] \div 256, HeaderSum(sres.arg)[2] % 256>>
           /\ ~Fits32(HeaderSum(sres.arg)) => (sres.err = "TooLong" /\ sres.hdr = <<>>)
           /\ (written = 0 /\ sres.arg = <<0, 0>>) => (sres.err = "" /\ sres.hdr = <<0, 0, 0, 0>>)
           /\ ser = sres.before

C9_Witness ==
    /\ sres.op = "create_header" /\ sres.arg = <<0, 0>>
    /\ ser.output = <<0, 0, 0, 1, 255>> /\ written = 1
    /\ sres.hdr = <<0, 0, 0, 1>>

\* the bytes an integer of each kind takes
Width(t) ==
    CASE t \in {"u8", "i8"} -> 1
      [] t \in {"u16", "i16"} -> 2
      [] t \in {"u32", "i32", "char"} -> 4
      [] t \in {"u64", "i64"} -> 8

\* C13: u8/i8 are written as 1 byte, u16/i16 as 2, u32/i32 as 4, u64/i64 as
\* 8, big-endian, signed values in two's complement, a char as its scalar
\* value in 4 big-endian bytes; a 4-byte word that is not a Unicode scalar
\* value fails with InvalidChar in a char position.
C13_FixedWidth ==
    /\ sres.op = "serialize_int"
        => /\ sres.err = ""
           /\ ser.output = sres.before.output \o IntVectors[sres.arg[1]].bytes
           /\ Len(ser.output) = Len(sres.before.output) + Width(IntVectors[sres.arg[1]].v.t)
    /\ (dres.op = "deserialize_char" /\ Len(Unread(dres.before)) >= 4)
        => /\ Unread(de) = SubSeq(Unread(dres.before), 5, Len(Unread(dres.before)))
           /\ IF /\ Unread(dres.before)[1] = 0
                 /\ Unread(dres.before)[2] <= 16
                 /\ ~(Unread(dres.before)[2] = 0 /\ Unread(dres.before)[3] \in 216..223)
              THEN /\ dres.err = ""
                   /\ dres.val = Char(<<Unread(dres.before)[2],
                                        Unread(dres.before)[3] * 256 + Unread(dres.before)[4]>>)
              ELSE dres.err = "InvalidChar"

C13_Witness ==
    /\ sres.op = "serialize_int" /\ IntVectors[sres.arg[1]].v = I16(-2)
    /\ ser.output = <<255, 255, 254>>

C13_WitnessChar ==
    /\ dres.op = "deserialize_char" /\ dres.err = "InvalidChar"
    /\ dres.before.iter = << <<0, 0, 223>>, <<255>> >>

\* C18: when the element count of a sequence (or the byte length of a string
\* or byte sequence) does not fit in a u32, the call fails with TooLong and
\* neither the output nor the length counter changes.
C18_TooLongUntouched ==
    (sres.op = "serialize_seq" /\ sres.arg # <<>>
        /\ ~(sres.arg[1][1] = 0 /\ sres.arg[1][2] = 0))
        => /\ sres.err = "TooLong"
           /\ ser.output = sres.before.output
           /\ ser.len = sres.before.len

\* what the code does with such a count: the sink is untouched, and the call
\* fails with TooLong when the output can be asked for 4 + n bytes more and
\* panics in reserve, before the count is checked, when it cannot.
C18_AsCoded ==
    (sres.op = "serialize_seq" /\ sres.arg # <<>>
        /\ ~(sres.arg[1][1] = 0 /\ sres.arg[1][2] = 0))
        => /\ sres.err = (IF sres.arg[1][1] < 32768 THEN "TooLong" ELSE "panic")
           /\ ser.output = sres.before.output
           /\ ser.len = sres.before.len

C18_Witness ==
    /\ sres.op = "serialize_seq" /\ sres.arg = <<(<<32768, 0, 0, 0>>)>>
    /\ sres.err = "panic"
    /\ ser.output = <<255>> /\ sres.before.output = <<255>>

C18_WitnessTooLong ==
    /\ sres.op = "serialize_seq" /\ sres.arg = <<(<<0, 1, 0, 0>>)>>
    /\ sres.err = "TooLong"
    /\ ser.output = <<255>> /\ sres.before.output = <<255>>

-----------------------------------------------------------------------------
(* Properties of the Transformer.                                          *)

\* the encoding of v alone, by a Serializer of its own
Encoding(v) == serialize(Serializer_new(<<>>), v).output

\* C10 as stated: whatever the buffer held, serialize(v) returns a 4-byte
\* big-endian header equal to the payload length followed by the encoding of v
\* alone; with the first 4 bytes removed, deserialize returns v.
C10_MessageIndependence ==
    /\ (tpc \in {"serialized", "failed"} /\ Supported(tval))
        => /\ tout.err = ""
           /\ tout.bytes = BE32(Len(Encoding(tval))) \o Encoding(tval)
           /\ Transformer_get_buffer(transformer) = tout.bytes
    /\ (tpc = "decoded" /\ Supported(tval))
        => /\ tres.err = ""
           /\ tres.val = tval
           /\ tres.rest = <<>>

\* C10 amended: ... with the first 4 bytes removed, deserialize returns v with
\* the NUL bytes of its strings removed, which is v when no string of v holds
\* a NUL byte.
C10_MessageIndependenceStripped ==
    /\ (tpc \in {"serialized", "failed"} /\ Supported(tval))
        => /\ tout.err = ""
           /\ tout.bytes = BE32(Len(Encoding(tval))) \o Encoding(tval)
           /\ Transformer_get_buffer(transformer) = tout.bytes
    /\ (tpc = "decoded" /\ Supported(tval))
        => /\ tres.err = ""
           /\ tres.val = StripNul(tval)
           /\ ~HasNulStr(tval) => tres.val = tval
           /\ tres.rest = <<>>

C10_Witness ==
    /\ tpc = "decoded" /\ tn = 2
    /\ Len(tout.before) > 4 /\ tout.before[Len(tout.before)] = 7
    /\ tval.t = "struct" /\ ~HasNulStr(tval)
    /\ tres.err = "" /\ tres.val = tval

-----------------------------------------------------------------------------
(* Properties of the encoding the pipeline produces.                       *)

Encoded == pc # "start" /\ buffer.err = ""

\* C14: a tuple, struct, tuple struct or newtype struct is written as the
\* encodings of its fields one after the other, with no count, name or
\* delimiter; unit, unit struct and None are written as zero bytes; Some(v) is
\* written exactly as v.
C14_CompositeFraming ==
    pc # "start"
        => /\ value.t \in {"tuple", "struct", "newtype", "unit", "none", "some"}
                => /\ buffer.err = ""
                   /\ Payload = Concat([i \in 1..Len(value.f) |-> Encoding(value.f[i])])
           /\ value.t \in {"unit", "none"} => Payload = <<>>
           /\ value = StructV(<<U8(0), U16(256), Str(<<97>>)>>)
                => Payload = <<0, 1, 0, 0, 0, 0, 1, 97>>
           /\ value = TupleV(<<U8(1), U16(2)>>) => Payload = <<1, 0, 2>>
           /\ value = NewtypeV(U16(7)) => Payload = <<0, 7>>
           /\ value = TupleV(<<U8(1), SomeV(U16(2))>>) => Payload = <<1, 0, 2>>

C14_Witness ==
    /\ Encoded /\ value.t = "struct" /\ Len(value.f) = 3
    /\ Payload = <<0, 1, 0, 0, 0, 0, 1, 97>>

\* the wire form of a string: the 32-bit big-endian count of its bytes that
\* are not NUL, then those bytes in order
StrWire(b) ==
    BE32(Cardinality({i \in 1..Len(b) : b[i] # 0})) \o SelectSeq(b, LAMBDA c : c # 0)

\* C15: a string is written as a 4-byte big-endian length L followed by L
\* bytes, the bytes of the string with every NUL byte removed and L their
\* count; a string without NUL bytes is written unchanged after its length.
C15_StrWire ==
    pc # "start"
        => /\ value.t = "str"
                => /\ buffer.err = ""
                   /\ Payload = StrWire(value.b)
                   /\ (\A i \in 1..Len(value.b) : value.b[i] # 0)
                        => Payload = BE32(Len(value.b)) \o value.b
           /\ \A i \in 1..Len(value.f) :
                value.f[i].t = "str" => Encoding(value.f[i]) = StrWire(value.f[i].b)
           /\ value = Str(<<104, 0, 0, 105>>) => Payload = <<0, 0, 0, 2, 104, 105>>
           /\ value = Str(<<0, 104, 105>>) => Payload = <<0, 0, 0, 2, 104, 105>>

C15_Witness ==
    /\ Encoded /\ value = Str(<<104, 0, 0, 105>>)
    /\ buffer.bytes = <<0, 0, 0, 6, 0, 0, 0, 2, 104, 105>>

\* C20: Some(v) and None can be encoded, as v and as nothing, but
\* deserialize_option always fails with Unsupported without consuming input,
\* over one buffer and over chunks, so a type holding an Option is not decoded.
C20_OptionUnsupported ==
    /\ (pc # "start" /\ value.t = "some")
        => (buffer.err = "" /\ Payload = Encoding(value.f[1]))
    /\ (pc # "start" /\ value.t = "none")
        => buffer = [err |-> "", bytes |-> <<0, 0, 0, 0>>]
    /\ (pc \in {"decoded", "decoded_rest"} /\ ty.t = "option")
        => /\ res.err = "Unsupported"
           /\ res.mode = "chunked" => (res.slice = <<>> /\ res.iter = chunks)
           /\ res.mode = "contiguous"
                => deserialize(Deserializer_from_bytes(input), ty).d
                     = Deserializer_from_bytes(input)
    /\ (pc \in {"decoded", "decoded_rest"} /\ HasKind(ty, {"option"}))
        => res.err \in {"Unsupported", "Eof"}

C20_Witness ==
    /\ pc = "decoded" /\ value = SomeV(U8(5)) /\ Payload = <<5>>
    /\ res.mode = "chunked" /\ res.err = "Unsupported"
    /\ res.iter = << <<5>> >>

C20_WitnessBorrowed ==
    /\ pc = "decoded_rest" /\ value = NoneV /\ input = <<7>>
    /\ res.mode = "contiguous" /\ res.err = "Unsupported"

-----------------------------------------------------------------------------
(* Properties of a Deserializer whose reads are called one by one.         *)

VarReads == {"next_bytes", "parse_bytes", "deserialize_str", "deserialize_bytes"}

\* C12: with a deserializer built by from_bytes over one buffer, every
\* successful string or byte read returns a view of that buffer, the bytes
\* just before the part not yet read; an owned buffer is allocated only on a
\* path that fails with Eof.
C12_ZeroCopy ==
    (built = "from_bytes" /\ last.op \in VarReads)
        => /\ last.err = ""
                => /\ last.cow = "Borrowed"
                   /\ reader.iter = <<>>
                   /\ Len(last.before.slice) >= Len(reader.slice) + Len(last.bytes)
                   /\ last.bytes = SubSeq(last.before.slice,
                                          Len(last.before.slice) - Len(reader.slice)
                                            - Len(last.bytes) + 1,
                                          Len(last.before.slice) - Len(reader.slice))
           /\ last.cow = "Owned" => last.err = "Eof"

C12_Witness ==
    /\ built = "from_bytes" /\ last.op = "deserialize_str"
    /\ last.err = "" /\ last.cow = "Borrowed"
    /\ last.val = Str(<<104, 105>>) /\ reader.slice = <<7>>

\* the chunk a read starts in once empty chunks are skipped: what is left of
\* the current slice, or the first chunk of the iterator that is not empty
RECURSIVE FirstNonEmpty(_)
FirstNonEmpty(iter) ==
    IF iter = <<>> THEN <<>>
    ELSE IF Head(iter) # <<>> THEN Head(iter)
    ELSE FirstNonEmpty(Tail(iter))

CurChunk(d) == IF d.slice # <<>> THEN d.slice ELSE FirstNonEmpty(d.iter)

\* n >= the size S asked for
Holds(n, S) == S[1] = 0 /\ S[2] = 0 /\ S[3] = 0 /\ n >= S[4]

\* C16 as stated: next_bytes(S) returns a borrowed slice of the current chunk
\* and advances it by S exactly when that chunk has at least S bytes left;
\* otherwise it returns an owned buffer of exactly S bytes, the next S bytes
\* across the current and following chunks.
C16_BorrowRule ==
    last.op = "next_bytes"
        => /\ last.err = ""
           /\ IF Holds(Len(CurChunk(last.before)), last.arg)
              THEN /\ last.cow = "Borrowed"
                   /\ last.bytes = SubSeq(CurChunk(last.before), 1, last.arg[4])
                   /\ reader.slice = SubSeq(CurChunk(last.before), last.arg[4] + 1,
                                            Len(CurChunk(last.before)))
              ELSE /\ last.cow = "Owned"
                   /\ Holds(Len(last.bytes), last.arg) /\ Len(last.bytes) = last.arg[4]
                   /\ last.bytes = SubSeq(Unread(last.before), 1, last.arg[4])

\* C16 amended: next_bytes(S) returns a borrowed slice of the current chunk
\* and advances it by S exactly when that chunk has at least S bytes left;
\* otherwise, when at least S bytes are left in the current and following
\* chunks together, it returns an owned buffer of exactly S bytes, the next S
\* bytes across those chunks, and when fewer are left it fails with Eof
\* having consumed them all.
C16_BorrowRuleEof ==
    last.op = "next_bytes"
        => /\ Unread(last.before) = (IF last.err = "" THEN last.bytes ELSE Unread(last.before))
                                      \o Unread(reader)
           /\ IF Holds(Len(CurChunk(last.before)), last.arg)
              THEN /\ last.err = "" /\ last.cow = "Borrowed"
                   /\ last.bytes = SubSeq(CurChunk(last.before), 1, last.arg[4])
                   /\ reader.slice = SubSeq(CurChunk(last.before), last.arg[4] + 1,
                                            Len(CurChunk(last.before)))
              ELSE IF Holds(Len(Unread(last.before)), last.arg)
              THEN /\ last.err = "" /\ last.cow = "Owned"
                   /\ Len(last.bytes) = last.arg[4]
                   /\ last.bytes = SubSeq(Unread(last.before), 1, last.arg[4])
              ELSE /\ last.err = "Eof" /\ last.cow = "Owned"
                   /\ Unread(reader) = <<>>

C16_Witness ==
    /\ built = "new" /\ last.op = "next_bytes" /\ last.arg = usize_of(3)
    /\ last.err = "" /\ last.cow = "Owned" /\ last.bytes = <<0, 2, 104>>
    /\ last.before.slice = <<0>> /\ Len(last.before.iter) = 2
    /\ reader.slice = <<105, 7>>

\* the bytes an element of kind t takes
ElemWidth(t) == IF t = "unit" THEN 0 ELSE Width(t)

\* the element of kind t that the bytes b are
ElemOf(t, b) ==
    CASE t = "u8" -> U8(b[1])
      [] t = "u16" -> U16(b[1] * 256 + b[2])
      [] t = "unit" -> UnitV

C17_WitnessEof ==
    /\ last.op = "next_element_seed" /\ seq_access # <<>>
    /\ seq_access[1].n = usize_of(3) /\ seq_access[1].calls = 3
    /\ last.err = "Eof" /\ last.arg = <<"u8">>

\* the read l, made with the Access acc open (<<>>: none), asks for a byte
ByteRead(l, acc) ==
    \/ l.op \in {"next_byte", "next_u32", "parse_bytes", "deserialize_str",
                 "deserialize_bytes", "deserialize_seq"}
    \/ l.op = "next_bytes" /\ l.arg # usize_of(0)
    \/ /\ l.op = "next_element_seed" /\ l.arg # <<"unit">>
       /\ acc # <<>> /\ ~usize_is_zero(acc[1].len)

\* b is what is left of a once some bytes are taken from its front
IsSuffix(b, a) == Len(b) <= Len(a) /\ b = SubSeq(a, Len(a) - Len(b) + 1, Len(a))

\* C19: a read fails with Eof only when the current slice is empty and the
\* chunk iterator has returned None; from then on every later read of at
\* least one byte on the same deserializer fails with Eof too, and the bytes
\* the failed read had copied stay consumed: the position never moves back.
C19_EofSticky ==
    [][/\ IsSuffix(Unread(reader'), Unread(reader))
       /\ (last' # last /\ last'.err = "Eof")
            => (reader'.slice = <<>> /\ reader'.iter = <<>>)
       /\ eof => /\ eof' /\ reader' = reader
                 /\ reader.slice = <<>> /\ reader.iter = <<>>
                 /\ (last' # last /\ ByteRead(last', seq_access)) => last'.err = "Eof"
       /\ (~eof /\ eof') => (last'.err = "Eof" /\ ByteRead(last', seq_access))]_vars

C19_Witness ==
    /\ built = "new" /\ eof /\ last.op = "next_u32" /\ last.err = "Eof"
    /\ last.before = [slice |-> <<0>>, iter |-> << <<>>, <<1, 255>> >>]
    /\ reader = [slice |-> <<>>, iter |-> <<>>]

C19_WitnessAgain ==
    /\ built = "new" /\ eof /\ last.op = "parse_bytes" /\ last.err = "Eof"
    /\ last.before = [slice |-> <<>>, iter |-> <<>>]

\* C21 as stated: in every reachable state of a Deserializer built over
\* chunks, the bytes returned so far, then the current slice, then the chunks
\* not yet pulled, are the concatenation of the chunks supplied.
C21_StreamConservation ==
    built = "new"
        => /\ returned \o reader.slice \o Concat(reader.iter) = Concat(supplied)
           /\ IsSuffix(reader.iter, supplied)

\* C21 amended: the same holds in every state reached without a read having
\* failed with Eof; once a read has failed with Eof, the slice and the
\* iterator are empty and the bytes returned so far are the supplied bytes
\* without the ones the failed read had taken, which are lost with its buffer.
C21_StreamConservationUntilEof ==
    built = "new"
        => /\ IsSuffix(reader.iter, supplied)
           /\ ~eof => returned \o reader.slice \o Concat(reader.iter) = Concat(supplied)
           /\ eof => /\ reader.slice = <<>> /\ reader.iter = <<>>
                     /\ Len(returned) <= Len(Concat(supplied))
                     /\ returned = SubSeq(Concat(supplied), 1, Len(returned))

C21_Witness ==
    /\ built = "new" /\ ~eof /\ last.op = "next_byte"
    /\ supplied = << <<0, 0, 0, 2>>, <<>>, <<104, 105, 7>> >>
    /\ returned = <<0, 0, 0, 2, 104>>
    /\ reader.slice = <<105, 7>> /\ reader.iter = <<>>

C21_WitnessLost ==
    /\ built = "new" /\ eof /\ last.op = "next_u32"
    /\ supplied = << <<0, 0, 0, 1>>, <<>>, <<255>> >>
    /\ returned = <<0, 0, 0, 1>> /\ last.before.iter = << <<>>, <<255>> >>
====
